---- MODULE Spec2Model ----
(***************************************************************************)
(* Model of the fixture-driven test harness in src/cpp/tester.cpp:         *)
(* find_test_cases (discovery), run_test (one case) and main (the loop,    *)
(* the summary line and the exit status).                                  *)
(*                                                                         *)
(* Strings are sequences of one-character strings, so that std::stoi,      *)
(* std::to_string, std::getline, operator>> and trim_trailing are modelled *)
(* by what they do to the characters.                                      *)
(***************************************************************************)
EXTENDS Integers, Sequences, FiniteSets, TLC

\* ------------------------------------------------------------------ bounds
\* Longest file-name stem, in characters, of a directory entry.
MaxStemLen == 2
\* Most entries of the fixture directory in the discovery families.
MaxEntries == 2
\* Most files of the fixture directory in the whole-run family.
MaxRunFiles == 3
\* Longest content of an input fixture in the parse family.
MaxInLen == 3
\* Longest content of an expected-output fixture in the comparison family.
MaxOutLen == 3

\* ------------------------------------------------------- program constants
\* Range of the C++ int that std::stoi and operator>> produce.
IntMax == 2147483647
IntMin == -IntMax - 1
\* const bool FULL_LOGGING = false;
FULL_LOGGING == FALSE

\* --------------------------------------------------------------- characters
Digits == <<"0", "1", "2", "3", "4", "5", "6", "7", "8", "9">>
IsDigit(c) == \E i \in 1..10 : Digits[i] = c
DigitVal(c) == (CHOOSE i \in 1..10 : Digits[i] = c) - 1
\* std::isspace in the "C" locale, which std::stoi (strtol) and the
\* operator>> sentry use to skip leading white space (the vertical tab,
\* which has no TLA+ escape, is in no alphabet of the model).
IsSpace(c) == c \in {" ", "\n", "\r", "\t", "\f"}
\* The characters trim_trailing strips: the literal " \n\r\t".
TrimChars == {" ", "\n", "\r", "\t"}

\* ------------------------------------------------------------ std::to_string
RECURSIVE NatToString(_)
NatToString(n) ==
    IF n < 10 THEN <<Digits[n + 1]>>
    ELSE NatToString(n \div 10) \o <<Digits[(n % 10) + 1]>>

to_string(n) == IF n < 0 THEN <<"-">> \o NatToString(-n) ELSE NatToString(n)

\* ----------------------------------------------- numeric prefix of a string
\* First index >= i of s that holds no white space (Len(s)+1 if none).
RECURSIVE SkipSpace(_, _)
SkipSpace(s, i) ==
    IF i <= Len(s) /\ IsSpace(s[i]) THEN SkipSpace(s, i + 1) ELSE i

\* First index >= i of s that holds no digit (Len(s)+1 if none).
RECURSIVE DigitsEnd(_, _)
DigitsEnd(s, i) ==
    IF i <= Len(s) /\ IsDigit(s[i]) THEN DigitsEnd(s, i + 1) ELSE i

\* The digit string s[i..j] read as strtol reads it, keeping the width of
\* the int: the result is minus its value, or 1 when the value passes
\* `limit` (-IntMax for a positive number, IntMin for a negative one).
RECURSIVE AccDigits(_, _, _, _)
AccDigits(s, i, j, limit) ==
    IF j < i THEN 0
    ELSE LET a == AccDigits(s, i, j - 1, limit)
             d == DigitVal(s[j])
         IN  IF a > 0 \/ a < (limit + d + 9) \div 10 THEN 1 ELSE 10 * a - d

\* The longest prefix [white space][+-]digits of s from index i on, as
\* strtol and num_get read it: ok is FALSE when it holds no digit, over is
\* TRUE when the digits do not fit an int.
ScanInt(s, i) ==
    LET i0 == SkipSpace(s, i)
        signed == i0 <= Len(s) /\ s[i0] \in {"+", "-"}
        neg == i0 <= Len(s) /\ s[i0] = "-"
        i1 == IF signed THEN i0 + 1 ELSE i0
        i2 == DigitsEnd(s, i1)
        a == AccDigits(s, i1, i2 - 1, IF neg THEN IntMin ELSE -IntMax)
    IN  [ok |-> i2 > i1, over |-> a > 0, neg |-> neg,
         val |-> IF a > 0 THEN 0 ELSE IF neg THEN a ELSE -a]

\* std::stoi(str): the value of the numeric prefix; throws
\* std::invalid_argument when there is none and std::out_of_range when the
\* value does not fit an int. Characters after the prefix are ignored.
stoi(s) ==
    LET r == ScanInt(s, 1)
    IN  IF ~r.ok THEN [ok |-> FALSE, what |-> "invalid_argument", val |-> 0]
        ELSE IF r.over THEN [ok |-> FALSE, what |-> "out_of_range", val |-> 0]
        ELSE [ok |-> TRUE, what |-> "", val |-> r.val]

\* --------------------------------------------------------------- std::sort
RECURSIVE InsertSorted(_, _)
InsertSorted(s, x) ==
    IF s = <<>> THEN <<x>>
    ELSE IF x <= Head(s) THEN <<x>> \o s
    ELSE <<Head(s)>> \o InsertSorted(Tail(s), x)

RECURSIVE SortInts(_)
SortInts(s) ==
    IF s = <<>> THEN <<>> ELSE InsertSorted(SortInts(Tail(s)), Head(s))

\* -------------------------------------------------------------------- state
VARIABLES
    dir_exists,      \* fs::exists(TESTS_DIR) && fs::is_directory(TESTS_DIR)
    files,           \* the entries of TESTS_DIR: [stem, ext, kind, content]
    pc,              \* the statement the single thread is at
    pending,         \* entries fs::directory_iterator has not yet produced
    case_numbers,    \* find_test_cases: std::vector<int> case_numbers
    test_cases,      \* main: the basenames find_test_cases returned
    idx,             \* main: position of the range-for loop in test_cases
    passed_count,    \* main: int passed_count
    input_str,       \* run_test: std::string input_str
    input_int,       \* run_test: int input_int
    expected_output, \* run_test: std::string expected_output
    actual_output,   \* run_test: std::string actual_output
    sol,             \* run_test: what the call of solution() produced
    retval,          \* the bool run_test returned to main
    console,         \* the lines written to std::cout, in order
    exit_status,     \* <<>> until main returns, then <<status>>
    log              \* history: one record per call of run_test

vars == <<dir_exists, files, pc, pending, case_numbers, test_cases, idx,
          passed_count, input_str, input_int, expected_output, actual_output,
          sol, retval, console, exit_status, log>>

findVars == <<pending, case_numbers>>
runVars == <<input_str, input_int, expected_output, actual_output, sol, retval>>

\* One line of console output: what it is and, for the summary, X and Y.
Line(tag, x, y) == [tag |-> tag, x |-> x, y |-> y]

\* ----------------------------------------------------------- the file system
\* All sequences over S of length lo..hi.
SeqsOf(S, lo, hi) == UNION {[1..k -> S] : k \in lo..hi}

\* All subsets of S with at most k elements.
RECURSIVE SubsetsUpTo(_, _)
SubsetsUpTo(S, k) ==
    IF k = 0 THEN {{}}
    ELSE LET P == SubsetsUpTo(S, k - 1)
         IN  P \cup {p \cup {e} : p \in P, e \in S}

\* A directory holds one entry per file name.
NamesUnique(fs) ==
    \A e1, e2 \in fs : (e1.stem = e2.stem /\ e1.ext = e2.ext) => e1 = e2

Entry(stem, ext, kind, content) ==
    [stem |-> stem, ext |-> ext, kind |-> kind, content |-> content]

\* The entry TESTS_DIR / (name + "." + ext) names, as a set of 0 or 1 entry.
\* run_test opens and reads what it finds; in the families over which
\* run_test runs every entry is a regular file.
Lookup(name, ext) == {f \in files : f.stem = name /\ f.ext = ext}

\* ------------------------------------------------------------ find_test_cases
\* entry.is_regular_file() && entry.path().extension() == ".in"
IsCandidate(e) == e.kind = "file" /\ e.ext = "in"

\* The body of the directory loop for one entry: push_back the number the
\* stem parses to; a std::exception from std::stoi is caught and ignored.
PushCase(nums, e) ==
    IF IsCandidate(e) /\ stoi(e.stem).ok
    THEN Append(nums, stoi(e.stem).val)
    ELSE nums

\* std::sort(case_numbers), then to_string of every number, in order.
Basenames(nums) ==
    LET sorted == SortInts(nums)
    IN  [i \in 1..Len(sorted) |-> to_string(sorted[i])]

\* main calls find_test_cases(TESTS_DIR); the directory is missing: the
\* error line is printed and the empty vector returned.
Find_missing ==
    /\ pc = "main"
    /\ ~dir_exists
    /\ console' = Append(console, Line("dir_not_found", 0, 0))
    /\ test_cases' = <<>>
    /\ pc' = "main_check"
    /\ UNCHANGED <<dir_exists, files, findVars, idx, passed_count, runVars,
                   exit_status, log>>

\* main calls find_test_cases(TESTS_DIR); the directory exists: the
\* iteration over its entries starts.
Find_start ==
    /\ pc = "main"
    /\ dir_exists
    /\ pending' = files
    /\ case_numbers' = <<>>
    /\ pc' = "find_iter"
    /\ UNCHANGED <<dir_exists, files, test_cases, idx, passed_count, runVars,
                   console, exit_status, log>>

\* One step of the directory_iterator loop; the order of the entries is
\* unspecified.
Find_iterate ==
    /\ pc = "find_iter"
    /\ \E e \in pending :
         /\ pending' = pending \ {e}
         /\ case_numbers' = PushCase(case_numbers, e)
    /\ UNCHANGED <<dir_exists, files, pc, test_cases, idx, passed_count,
                   runVars, console, exit_status, log>>

\* The loop is over: sort, convert and return to main.
Find_return ==
    /\ pc = "find_iter"
    /\ pending = {}
    /\ case_numbers' = SortInts(case_numbers)
    /\ test_cases' = Basenames(case_numbers)
    /\ pc' = "main_check"
    /\ UNCHANGED <<dir_exists, files, pending, idx, passed_count, runVars,
                   console, exit_status, log>>

NextDiscover == Find_missing \/ Find_start \/ Find_iterate \/ Find_return

\* ------------------------------------------------------------- trim_trailing
\* s.find_last_not_of(" \n\r\t") + 1: the 1-based position of the last
\* character that is not stripped; std::string::npos + 1 wraps to 0.
RECURSIVE KeepLen(_)
KeepLen(s) ==
    IF s = <<>> THEN 0
    ELSE IF s[Len(s)] \in TrimChars THEN KeepLen(SubSeq(s, 1, Len(s) - 1))
    ELSE Len(s)

\* Mutant: strips leading white space too, as Python's str.strip() does.
RECURSIVE trim_both(_)
trim_both(s) ==
    IF s # <<>> /\ s[1] \in TrimChars THEN trim_both(Tail(s))
    ELSE SubSeq(s, 1, KeepLen(s))

\* s.erase(s.find_last_not_of(" \n\r\t") + 1)
trim_trailing(s) == SubSeq(s, 1, KeepLen(s))

\* ------------------------------------------------- reading the input fixture
\* Position of the first "\n" of s at or after i, 0 if there is none.
RECURSIVE FindNewline(_, _)
FindNewline(s, i) ==
    IF i > Len(s) THEN 0
    ELSE IF s[i] = "\n" THEN i
    ELSE FindNewline(s, i + 1)

\* std::getline(input_stream, input_str) on a freshly opened stream: the
\* text up to the first newline, the position after it, and whether the
\* stream is still good() (it is not once the end of file was hit).
getline(content) ==
    LET nl == FindNewline(content, 1)
    IN  IF nl = 0
        THEN [str |-> content, pos |-> Len(content) + 1, good |-> FALSE]
        ELSE [str |-> SubSeq(content, 1, nl - 1), pos |-> nl + 1, good |-> TRUE]

\* input_stream >> input_int from position pos on. stored is FALSE when
\* the sentry fails (stream not good, or only white space left): input_int
\* is then not written and keeps its indeterminate value. When characters
\* are read but are no number, 0 is stored; a number that does not fit is
\* stored clamped. fail is the stream's failbit after the read: it is set
\* exactly when no integer that fits an int was read.
ReadInt(content, pos, good) ==
    IF ~good \/ SkipSpace(content, pos) > Len(content)
    THEN [stored |-> FALSE, fail |-> TRUE, val |-> 0]
    ELSE LET r == ScanInt(content, pos)
         IN  IF ~r.ok THEN [stored |-> TRUE, fail |-> TRUE, val |-> 0]
             ELSE IF r.over
                  THEN [stored |-> TRUE, fail |-> TRUE,
                        val |-> IF r.neg THEN IntMin ELSE IntMax]
             ELSE [stored |-> TRUE, fail |-> FALSE, val |-> r.val]

\* The values an int that was never written may be read as.
Indeterminate == {-1, 0, 7}

\* ------------------------------------------------------ the solution routine
\* What solution(text, n) can return.
Results == {-1, 0, 1, 10}

\* A call of solution(text, n) returns an integer or raises a fault: an
\* exception derived from std::exception, or one of any other type.
SolutionOutcomes(text, n) ==
    {[kind |-> "return", val |-> r] : r \in Results}
        \cup {[kind |-> "std_exception", val |-> 0],
              [kind |-> "other_exception", val |-> 0]}

NoCall == [kind |-> "none", val |-> 0]

\* ------------------------------------------------------------------ run_test
\* The history record of the call of run_test that is under way.
Cur == log[Len(log)]
SetCur(field, v) == [log EXCEPT ![Len(log)][field] = v]

\* catch (const std::exception& e): does the handler of run_test take the
\* exception the call of solution raised?
Catches(o) == o.kind = "std_exception"

\* actual_output == expected_output, both trimmed.
Matches(actual, expected) == actual = expected

\* return false; at the two SKIPPED exits (lines 90 and 101): the value
\* returned, and where control goes.
\* Mutants: a skip that returns true; a skip that does not return.
SkippedResultTrue == TRUE
SkipFallsThrough == "rt_solve"

SkippedResult == FALSE
SkipTarget == "rt_return"

\* Lines 86-95: open the input file; SKIPPED when that fails, otherwise
\* read the text line and the integer.
RunTest_open ==
    /\ pc = "rt_open"
    /\ LET in == Lookup(test_cases[idx], "in")
       IN  IF in = {}
           THEN /\ console' = Append(console, Line("skipped_input", 0, 0))
                /\ retval' = SkippedResult
                /\ log' = SetCur("outcome", "skipped_input")
                /\ pc' = SkipTarget
                /\ UNCHANGED <<input_str, input_int>>
           ELSE \E f \in in :
                  LET line == getline(f.content)
                      tok == ReadInt(f.content, line.pos, line.good)
                  IN  /\ input_str' = line.str
                      /\ \E v \in (IF tok.stored THEN {tok.val} ELSE Indeterminate) :
                           input_int' = v
                      /\ log' = [log EXCEPT ![Len(log)].opened = TRUE,
                                            ![Len(log)].fail = tok.fail]
                      /\ pc' = "rt_expected"
                      /\ UNCHANGED <<console, retval>>
    /\ UNCHANGED <<dir_exists, files, findVars, test_cases, idx, passed_count,
                   expected_output, actual_output, sol, exit_status>>

\* Lines 98-104: SKIPPED when the expected-output file does not exist,
\* otherwise read it whole and trim it.
RunTest_expected ==
    /\ pc = "rt_expected"
    /\ LET out == Lookup(test_cases[idx], "out")
       IN  IF out = {}
           THEN /\ console' = Append(console, Line("skipped_output", 0, 0))
                /\ retval' = SkippedResult
                /\ log' = SetCur("outcome", "skipped_output")
                /\ pc' = SkipTarget
                /\ UNCHANGED expected_output
           ELSE \E f \in out :
                  /\ expected_output' = trim_trailing(f.content)
                  /\ log' = SetCur("out_found", TRUE)
                  /\ pc' = "rt_solve"
                  /\ UNCHANGED <<console, retval>>
    /\ UNCHANGED <<dir_exists, files, findVars, test_cases, idx, passed_count,
                   input_str, input_int, actual_output, sol, exit_status>>

\* Line 107: the call solution(input_str, input_int). An exception the
\* handler of run_test does not take leaves run_test and main, which has no
\* handler: std::terminate ends the process.
RunTest_solve ==
    /\ pc = "rt_solve"
    /\ \E o \in SolutionOutcomes(input_str, input_int) :
         /\ sol' = o
         /\ IF o.kind = "return"
            THEN /\ pc' = "rt_compare"
                 /\ log' = SetCur("calls", Cur.calls + 1)
            ELSE IF Catches(o)
            THEN /\ pc' = "rt_catch"
                 /\ log' = SetCur("calls", Cur.calls + 1)
            ELSE /\ pc' = "terminated"
                 /\ log' = [log EXCEPT ![Len(log)].calls = Cur.calls + 1,
                                       ![Len(log)].outcome = "uncaught"]
    /\ UNCHANGED <<dir_exists, files, findVars, test_cases, idx, passed_count,
                   input_str, input_int, expected_output, actual_output,
                   retval, console, exit_status>>

\* Lines 107-126: to_string of the result, trim, compare, return.
RunTest_compare ==
    /\ pc = "rt_compare"
    /\ LET actual == trim_trailing(to_string(sol.val))
           same == Matches(actual, expected_output)
       IN  /\ actual_output' = actual
           /\ retval' = same
           /\ log' = SetCur("outcome", IF same THEN "passed" ELSE "mismatch")
           /\ console' = IF FULL_LOGGING
                         THEN Append(console,
                                     Line(IF same THEN "passed" ELSE "failed", 0, 0))
                         ELSE console
    /\ pc' = "rt_return"
    /\ UNCHANGED <<dir_exists, files, findVars, test_cases, idx, passed_count,
                   input_str, input_int, expected_output, sol, exit_status>>

\* Lines 128-133: the handler prints FAILED and the error, returns false.
RunTest_catch ==
    /\ pc = "rt_catch"
    /\ console' = console \o <<Line("failed", 0, 0), Line("error", 0, 0)>>
    /\ retval' = FALSE
    /\ log' = SetCur("outcome", "exception")
    /\ pc' = "rt_return"
    /\ UNCHANGED <<dir_exists, files, findVars, test_cases, idx, passed_count,
                   input_str, input_int, expected_output, actual_output, sol,
                   exit_status>>

\* ---------------------------------------------------------------------- main
\* return (passed_count == total_count) ? 0 : 1;
ExitCode(passed, total) == IF passed = total THEN 0 ELSE 1

\* "Passed X out of Y tests."
Summary(passed, total) == Line("summary", passed, total)

\* if (run_test(test_case)) passed_count++;
Count(passed, ok) == IF ok THEN passed + 1 ELSE passed

\* Lines 145-148: no test case: the notice, and return 0.
Main_no_cases ==
    /\ pc = "main_check"
    /\ test_cases = <<>>
    /\ console' = Append(console, Line("no_cases", 0, 0))
    /\ exit_status' = <<0>>
    /\ pc' = "done"
    /\ UNCHANGED <<dir_exists, files, findVars, test_cases, idx, passed_count,
                   runVars, log>>

\* Lines 150-151: passed_count = 0 and the loop starts at the first case.
Main_begin_loop ==
    /\ pc = "main_check"
    /\ test_cases # <<>>
    /\ passed_count' = 0
    /\ idx' = 1
    /\ pc' = "loop"
    /\ UNCHANGED <<dir_exists, files, findVars, test_cases, runVars, console,
                   exit_status, log>>

\* Lines 151-152, 77-82: the loop calls run_test on the next case.
Main_call ==
    /\ pc = "loop"
    /\ idx <= Len(test_cases)
    /\ log' = Append(log, [case |-> test_cases[idx], at |-> idx,
                           opened |-> FALSE, fail |-> FALSE,
                           out_found |-> FALSE, calls |-> 0,
                           outcome |-> "running"])
    /\ console' = IF FULL_LOGGING
                  THEN Append(console, Line("running", 0, 0))
                  ELSE console
    /\ pc' = "rt_open"
    /\ UNCHANGED <<dir_exists, files, findVars, test_cases, idx, passed_count,
                   runVars, exit_status>>

\* Lines 152-155: run_test returned; count it and go to the next case. The
\* locals of run_test are gone.
Main_count ==
    /\ pc = "rt_return"
    /\ passed_count' = Count(passed_count, retval)
    /\ idx' = idx + 1
    /\ pc' = "loop"
    /\ input_str' = <<>>
    /\ input_int' = 0
    /\ expected_output' = <<>>
    /\ actual_output' = <<>>
    /\ sol' = NoCall
    /\ retval' = FALSE
    /\ UNCHANGED <<dir_exists, files, findVars, test_cases, console,
                   exit_status, log>>

\* Lines 163-169: the loop is over: the summary line and the exit status.
Main_summary ==
    /\ pc = "loop"
    /\ idx > Len(test_cases)
    /\ LET total_count == Len(test_cases)
       IN  /\ console' = Append(console, Summary(passed_count, total_count))
           /\ exit_status' = <<ExitCode(passed_count, total_count)>>
    /\ pc' = "done"
    /\ UNCHANGED <<dir_exists, files, findVars, test_cases, idx, passed_count,
                   runVars, log>>

Next ==
    \/ Find_missing \/ Find_start \/ Find_iterate \/ Find_return
    \/ Main_no_cases \/ Main_begin_loop \/ Main_call \/ Main_count
    \/ Main_summary
    \/ RunTest_open \/ RunTest_expected \/ RunTest_solve \/ RunTest_compare
    \/ RunTest_catch

\* ------------------------------------------------------------ initial states
\* main has not started: nothing discovered, nothing printed, no exit status.
Start ==
    /\ pc = "main"
    /\ pending = {}
    /\ case_numbers = <<>>
    /\ test_cases = <<>>
    /\ idx = 1
    /\ passed_count = 0
    /\ input_str = <<>>
    /\ input_int = 0
    /\ expected_output = <<>>
    /\ actual_output = <<>>
    /\ sol = NoCall
    /\ retval = FALSE
    /\ console = <<>>
    /\ exit_status = <<>>
    /\ log = <<>>

\* Discovery family: any directory of at most MaxEntries entries whose
\* stems are the strings of 1..MaxStemLen characters over StemChars, or
\* the stem 2147483648 (one more than INT_MAX); an entry is a regular file
\* or a directory, with the extension .in, .out or .txt.
StemChars == {"0", "1", "a", "-"}
BigStem == <<"2", "1", "4", "7", "4", "8", "3", "6", "4", "8">>
Stems == SeqsOf(StemChars, 1, MaxStemLen) \cup {BigStem}
EntryShapes == {<<"in", "file">>, <<"in", "dir">>, <<"out", "file">>,
                <<"txt", "file">>}
DiscoverPool == {Entry(st, sh[1], sh[2], <<>>) : st \in Stems, sh \in EntryShapes}

InitDiscover ==
    /\ Start
    /\ \/ dir_exists = FALSE /\ files = {}
       \/ /\ dir_exists = TRUE
          /\ files \in {fs \in SubsetsUpTo(DiscoverPool, MaxEntries) : NamesUnique(fs)}

\* Whole-run family: at most MaxRunFiles fixture files named 1, 2 or 01;
\* an input holds a text line and then an integer, nothing, or a word.
RunInputs == {<<"h", "\n", "1", "\n">>, <<"h", "\n">>, <<"h", "\n", "h">>}
RunOutputs == {<<"1", "\n">>, <<"0">>}
RunPool ==
    {Entry(st, "in", "file", c) : st \in {<<"1">>, <<"2">>, <<"0", "1">>}, c \in RunInputs}
        \cup {Entry(st, "out", "file", c) : st \in {<<"1">>, <<"2">>}, c \in RunOutputs}

InitRun ==
    files \in {fs \in SubsetsUpTo(RunPool, MaxRunFiles) : NamesUnique(fs)}

\* Parse family: the one case 1, its input any string of at most MaxInLen
\* characters over InChars, its expected output absent, "1\n" or "0".
InChars == {"h", "\n", "1", "-", " "}
InitParse ==
    \E c \in SeqsOf(InChars, 0, MaxInLen) :
      \E outs \in {{}} \cup {{Entry(<<"1">>, "out", "file", o)} : o \in RunOutputs} :
        files = {Entry(<<"1">>, "in", "file", c)} \cup outs

\* Comparison family: the one case 1 with a well-formed input, its expected
\* output any string of at most MaxOutLen characters over OutChars.
OutChars == {"0", "1", "-", " ", "\n", "\t", "\r"}
InitCompare ==
    \E c \in SeqsOf(OutChars, 0, MaxOutLen) :
      files = {Entry(<<"1">>, "in", "file", <<"h", "\n", "1", "\n">>),
               Entry(<<"1">>, "out", "file", c)}

Init ==
    /\ Start
    /\ \/ dir_exists = FALSE /\ files = {}
       \/ dir_exists = TRUE /\ (InitRun \/ InitParse \/ InitCompare)

\* ------------------------------------------------------------ specifications
\* A whole run of the harness.
Spec == Init /\ [][Next]_vars

\* find_test_cases alone, over the discovery family.
SpecDiscover == InitDiscover /\ [][NextDiscover]_vars

\* ==================================================================== claims
\* Numeric value of a returned basename.
IdOf(name) == stoi(name).val

\* The whole stem is an integer literal, [+-]digits, that fits an int.
StemIsInteger(st) ==
    LET body == IF st # <<>> /\ st[1] \in {"+", "-"} THEN Tail(st) ELSE st
    IN  /\ body # <<>>
        /\ \A i \in 1..Len(body) : IsDigit(body[i])
        /\ stoi(st).ok

\* C1: the sequence find_test_cases returns is sorted ascending by numeric
\* value and holds no identifier twice, whatever the directory holds
\* (stems that denote the same number, such as 1.in and 01.in, included).
C1_SortedNoDuplicates ==
    pc = "main_check" =>
        \A i, j \in 1..Len(test_cases) :
            i < j => IdOf(test_cases[i]) < IdOf(test_cases[j])

\* C2: discovery is a pure filter: a directory entry contributes an
\* identifier if and only if it is a regular file with the extension .in
\* whose stem is an integer; an entry with a non-numeric stem (abc.in,
\* 1abc.in) contributes none.
C2_PureFilter ==
    [][\A e \in pending \ pending' :
          (Len(case_numbers') = Len(case_numbers) + 1)
              <=> (e.kind = "file" /\ e.ext = "in" /\ StemIsInteger(e.stem))]_vars

\* The run is over: main returned, or std::terminate ended the process.
Finished == pc \in {"done", "terminated"}

Skipped == {"skipped_input", "skipped_output"}

\* Number of calls of run_test that ended Passed.
PassedOutcomes == Cardinality({i \in 1..Len(log) : log[i].outcome = "passed"})

\* The summary lines printed so far.
IsSummary(l) == l.tag = "summary"
Summaries == SelectSeq(console, IsSummary)

\* C3: the exit status of every run is 0 exactly when the Passed count
\* equals the number of discovered cases (zero cases included), 1 otherwise.
C3_ExitStatus ==
    Finished =>
        exit_status = <<IF PassedOutcomes = Len(test_cases) THEN 0 ELSE 1>>

\* C4: every run, whatever the directory holds, ends having printed exactly
\* one summary line "Passed X out of Y tests", X the number of Passed
\* outcomes and Y the number of discovered cases.
C4_OneSummaryLine ==
    Finished =>
        Summaries = <<Line("summary", PassedOutcomes, Len(test_cases))>>

\* C5: a case whose input file opens but whose integer token is absent or
\* not a number is never counted as Passed.
C5_ParseFaultNeverPasses ==
    \A i \in 1..Len(log) :
        (log[i].opened /\ log[i].fail) => log[i].outcome # "passed"

\* C6: a fault the solution raises is caught inside run_test and becomes a
\* Failed outcome of that case; it never reaches main, and the run goes on.
C6_FaultCaught ==
    sol.kind \in {"std_exception", "other_exception"} =>
        /\ pc \in {"rt_catch", "rt_return"}
        /\ pc = "rt_return" => (~retval /\ Cur.outcome = "exception")

\* C9: main runs run_test exactly once per discovered identifier, in
\* discovery order, each case to its outcome before the next starts, and
\* counts a case only right after it returned Passed.
C9_OncePerCaseInOrder ==
    /\ Finished =>
         /\ Len(log) = Len(test_cases)
         /\ \A i \in 1..Len(log) :
              /\ log[i].case = test_cases[i]
              /\ log[i].outcome \in {"passed", "mismatch", "exception"} \cup Skipped
    /\ \A i \in 1..Len(log) : i < Len(log) => log[i].outcome # "running"
    /\ pc \in {"loop", "done"} => passed_count = PassedOutcomes

\* Is the input, or the expected output, of the case named `name` missing?
InputMissing(name) == Lookup(name, "in") = {}
OutputMissing(name) == Lookup(name, "out") = {}

\* Has the i-th call of run_test returned?
Returned(i) == i < Len(log) \/ pc \in {"rt_return", "loop", "done"}

\* C7: a discovered case whose input file cannot be opened, or whose
\* expected-output file does not exist, is Skipped: it is in the total and
\* not in the Passed count, it does not end the run (only an exception
\* that escapes does, and main returns only after every case was run), and
\* as the only case it gives "Passed 0 out of 1" and a nonzero exit status.
C7_SkippedCase ==
    /\ \A i \in 1..Len(log) :
         (Returned(i) /\ (InputMissing(log[i].case) \/ OutputMissing(log[i].case)))
             => log[i].outcome \in Skipped
    /\ (pc = "rt_return" /\ Cur.outcome \in Skipped) => ~retval
    /\ pc \in {"loop", "done"} => passed_count = PassedOutcomes
    /\ pc = "terminated" => Cur.outcome = "uncaught"
    /\ (pc = "done" /\ test_cases # <<>>) =>
         /\ Len(log) = Len(test_cases)
         /\ Summaries = <<Line("summary", PassedOutcomes, Len(test_cases))>>
    /\ (pc = "done" /\ Len(test_cases) = 1 /\ log[1].outcome \in Skipped) =>
         /\ console[Len(console)] = Line("summary", 0, 1)
         /\ exit_status = <<1>>

\* C7 witness: a finished run whose first case was skipped for its missing
\* input and whose second case, run after it, for its missing output.
C7_Witness ==
    /\ pc = "done"
    /\ Len(log) >= 2
    /\ log[1].outcome = "skipped_input"
    /\ log[2].outcome = "skipped_output"

\* The canonical decimal string of each value the solution returns, written
\* out by hand.
DecimalOf(r) ==
    CASE r = -1 -> <<"-", "1">>
      [] r = 0 -> <<"0">>
      [] r = 1 -> <<"1">>
      [] r = 10 -> <<"1", "0">>

\* c is the decimal string of r followed by spaces, tabs, carriage returns
\* and newlines only.
DecimalThenSpace(c, r) ==
    \E k \in 0..Len(c) :
        /\ SubSeq(c, 1, k) = DecimalOf(r)
        /\ \A i \in (k + 1)..Len(c) : c[i] \in {" ", "\t", "\r", "\n"}

\* The content of the expected-output file of the case under way.
ExpectedFile == (CHOOSE f \in Lookup(Cur.case, "out") : TRUE).content

C10_SolutionCalls ==
    /\ Len(log) <= Len(test_cases)
    /\ \A i \in 1..Len(log) :
         /\ log[i].at = i
         /\ log[i].calls <= 1
         /\ log[i].calls = 1 =>
              /\ log[i].opened /\ ~InputMissing(log[i].case)
              /\ log[i].out_found /\ ~OutputMissing(log[i].case)
         /\ log[i].outcome \in Skipped => log[i].calls = 0
    /\ sol # NoCall => (log # <<>> /\ Cur.calls = 1)
    /\ test_cases = <<>> => (log = <<>> /\ sol = NoCall)

\* C10 witness: a finished run in which one case invoked the solution and
\* another was skipped.
C10_Witness ==
    /\ pc = "done"
    /\ \E i \in 1..Len(log) : log[i].calls = 1
    /\ \E i \in 1..Len(log) : log[i].outcome \in Skipped

====
